---- MODULE Spec2Model ----
(***************************************************************************)
(* RequestList (src/src/request_list.js): a deduplicated list of requests  *)
(* with a cursor (nextIndex), the dictionary of requests in progress and   *)
(* the dictionary of reclaimed requests, restorable from a state object.   *)
(*                                                                         *)
(* Every public method wraps its body in Promise.resolve().then(...), so   *)
(* each body runs to completion as one step of the event loop: one action  *)
(* per body.  initialize() is a chain of callbacks, one action each.       *)
(*                                                                         *)
(* Encoding of JavaScript values                                           *)
(*   - a uniqueKey is a string; the dictionaries inProgress and reclaimed  *)
(*     only ever hold the value true, so each is the set of its keys;      *)
(*   - null and undefined are the strings Null and Undefined;              *)
(*   - a number is an integer, and NaN is the reserved integer NaN, on     *)
(*     which every comparison (<, >, >=) is false, as in JavaScript;       *)
(*   - the nextIndex of a state object is any value: the field kind says   *)
(*     whether it is the number nextIndex ("integer"), the number          *)
(*     nextIndex + 1/2 ("half") or the decimal string of nextIndex         *)
(*     ("string"), a value whose typeof is not 'number'.                   *)
(*                                                                         *)
(* Inputs: a source is given by its uniqueKey and its position in sources  *)
(* (its payload); the calls are made with uniqueKeys that name no property *)
(* of Object.prototype, the sources of SpecLoad also hold one that does;   *)
(* the inProgress field of a state object is a dictionary whose values are *)
(* all true, as getState() makes it.                                       *)
(*                                                                         *)
(* Specifications                                                          *)
(*   Spec           one instance, options.state arbitrary, no              *)
(*                  persistStateKey;                                       *)
(*   SpecLoad       the loading of the sources alone, over more keys;      *)
(*   SpecRoundTrip  Spec, then getState() and a second instance built from *)
(*                  the same sources with that snapshot as options.state,  *)
(*                  on which only fetchNextRequest is called;              *)
(*   SpecPersist    instances with persistStateKey, the PERSIST_STATE      *)
(*                  handler, the writes to the key-value store and the     *)
(*                  restart of the process;                                *)
(*   SpecInitialize initialize() over every kind of source (a request, a   *)
(*                  request with an invalid uniqueKey, a list to fetch),   *)
(*                  and the calls made before it has ended;                *)
(*   SpecRetry      a list without state object on which fetchNextRequest  *)
(*                  keeps being called (weak fairness);                    *)
(*   SpecProgress   a list whose workers keep fetching and answer every    *)
(*                  request they were given (weak fairness).               *)
(***************************************************************************)
EXTENDS Integers, Sequences, FiniteSets, TLC

\* Longest list of sources given to the constructor.
MaxSources == 3

\* Most restarts of the process (SpecPersist).
MaxRestarts == 1

\* Most setValue calls in flight at a time: the platform emits no
\* PERSIST_STATE signal that would put more in flight (SpecPersist,
\* SpecInitialize).
MaxPending == 3

\* The uniqueKeys the sources, the state object and the callers draw from.
Keys == {"a", "b", "c"}

\* The uniqueKeys that name a property of Object.prototype: on the object
\* literals uniqueKeyToIndex, inProgress and reclaimed a lookup of such a
\* key finds the inherited property, not undefined.
ObjectPrototypeKeys == {"toString"}

\* The value of options.persistStateKey when it is given.
PersistKey == "STATE"

Null == "null"
Undefined == "undefined"
NaN == -1000

VARIABLES
    sources,            \* this.sources: sequence of uniqueKeys, in the order given
    requests,           \* this.requests: sequence of uniqueKeys
    uniqueKeyToIndex,   \* this.uniqueKeyToIndex: uniqueKey -> 0-based index in requests
    nextIndex,          \* this.nextIndex
    inProgress,         \* this.inProgress (set of its keys)
    reclaimed,          \* this.reclaimed (set of its keys)
    isStatePersisted,   \* this.isStatePersisted (the dirty flag is its negation)
    isLoading,          \* this.isLoading
    isInitialized,      \* this.isInitialized
    pc,                 \* position of the initialize() promise chain
    loadPos,            \* 1-based position of the next source Promise.mapSeries loads
    last,               \* the callback that ran last: [op, key, ret]
    handled,            \* history: keys for which markRequestHandled succeeded
    outstanding,        \* history: per key, fetches that returned it since its last successful reclaim
    payloads,           \* per request of this.requests, the 1-based position in
                        \* sources of the source object it was built from
    persistStateKey,    \* this.persistStateKey (Null when the option is not given)
    given,              \* <<s>> when the instance was constructed with options.state = s,
                        \* the snapshot taken from the instance before it; <<>> when
                        \* options.state is any state object, or none
    store,              \* the key-value store under persistStateKey: <<>> or <<state>>
    pending,            \* the setValue calls in flight: the serialized ones, then
                        \* the others, oldest first
    restarts,           \* how many times the process was stopped and started again
    restored,           \* <<state>> right after the restore callback ran with state
    script,             \* history: how many steps of Scenario the calls made since
                        \* initialize() ended, with the sources a, b, c and no state
                        \* object, are (-1 when they are no beginning of it)
    settled,            \* history: the requests that the state object the first
                        \* instance was restored from counts as handled (those
                        \* before its nextIndex that are not in its inProgress)
    owed,               \* history: the requests neither handled nor settled when the
                        \* process stopped that fetchNextRequest has not returned since
    done,               \* history: the requests marked handled on this instance,
                        \* and those covered when the process started again
    covered,            \* history: what done was when getState() made the object
                        \* the store holds
    fetchLog,           \* history: what fetchNextRequest returned, in order, since the
                        \* instance was constructed with the snapshot of given
    snapshot,           \* <<object>> for the object the last getState() of this
                        \* instance returned, as it was returned; its inProgress
                        \* field is this.inProgress itself, not a copy
    emptyObs            \* history of the last isEmpty() that resolved true:
                        \*   "none"         no such call since the last fetch but one
                        \*   "true"         it resolved true, no successful call since
                        \*   "trueHandled"  ... then markRequestHandled calls succeeded
                        \*   "stale"        ... then a reclaimRequest succeeded
                        \*   "fetched:" \o one of the three: the fetchNextRequest
                        \*                  that followed has run

progVars == <<requests, payloads, uniqueKeyToIndex, nextIndex, inProgress, reclaimed,
              isStatePersisted, isLoading, isInitialized>>
queueVars == <<requests, nextIndex, inProgress, reclaimed, isStatePersisted>>
histVars == <<handled, outstanding, emptyObs, done>>
envVars == <<persistStateKey, given, store, pending, restarts, settled, covered>>
vars == <<sources, requests, uniqueKeyToIndex, nextIndex, inProgress, reclaimed,
          isStatePersisted, isLoading, isInitialized, pc, loadPos, last,
          handled, outstanding, emptyObs, payloads, persistStateKey, given,
          store, pending, restarts, restored, script, owed, fetchLog, settled,
          covered, done, snapshot>>

-----------------------------------------------------------------------------
\* JavaScript comparisons on numbers: false as soon as one side is NaN.
Lt(x, y) == x # NaN /\ y # NaN /\ x < y
Gt(x, y) == x # NaN /\ y # NaN /\ x > y
Ge(x, y) == x # NaN /\ y # NaN /\ x >= y

\* x + n of JavaScript for a number x and an integer n.
Plus(x, n) == IF x = NaN THEN NaN ELSE x + n

\* requests[i] of the code (0-based) is requests[i + 1] here.
At(i) == requests[i + 1]

\* ensureUniqueKeyValid: a non-empty string.
ensureUniqueKeyValid(uniqueKey) == uniqueKey # ""

\* getFirstKey(dict): undefined for an empty dictionary, else one of its
\* keys.  Which one is the enumeration order of the engine; the set of the
\* keys it may return is given here.
getFirstKey(dict) == IF dict = {} THEN {Undefined} ELSE dict

\* Sequences of length at most n over S.
SeqsUpTo(S, n) == UNION {[1..m -> S] : m \in 0..n}

\* The source lists the constructor is given.
SourceLists == SeqsUpTo(Keys, MaxSources)

\* The source lists of SpecLoad: some keys name a property of
\* Object.prototype.
LoadSourceLists == SeqsUpTo(Keys \cup ObjectPrototypeKeys, MaxSources)

\* The state objects initialize() may be handed (options.state or the value
\* read from the key-value store); Undefined stands for no state.
StateObjects ==
    [kind : {"integer"},
     nextIndex : (-1 .. MaxSources + 1) \cup {NaN},
     nextUniqueKey : Keys \cup {Null},
     inProgress : SUBSET Keys]
    \cup
    [kind : {"half", "string"},
     nextIndex : -1 .. MaxSources + 1,
     nextUniqueKey : Keys \cup {Null},
     inProgress : SUBSET Keys]

Record(op, key, ret) == [op |-> op, key |-> key, ret |-> ret]

-----------------------------------------------------------------------------
\* The steps of the scenario of three sources a, b, c and no state object:
\* the call, and what it resolves with and leaves in nextIndex.
Step(op, key, ret, cursor) == [op |-> op, key |-> key, ret |-> ret, cursor |-> cursor]

Scenario ==
    << Step("fetchNextRequest", "", "a", 1),
       Step("fetchNextRequest", "", "b", 2),
       Step("reclaimRequest", "a", "ok", 2),
       Step("fetchNextRequest", "", "a", 2),
       Step("markRequestHandled", "a", "ok", 2),
       Step("fetchNextRequest", "", "c", 3),
       Step("fetchNextRequest", "", Null, 3),
       Step("isEmpty", "", "true", 3),
       Step("isFinished", "", "false", 3),
       Step("markRequestHandled", "b", "ok", 3),
       Step("markRequestHandled", "c", "ok", 3),
       Step("isFinished", "", "true", 3) >>

-----------------------------------------------------------------------------
\* The constructor: the fields of a new instance, and the histories of it.
Constructed ==
    /\ requests = <<>>
    /\ payloads = <<>>
    /\ uniqueKeyToIndex = <<>>
    /\ nextIndex = 0
    /\ inProgress = {}
    /\ reclaimed = {}
    /\ isStatePersisted = TRUE
    /\ isLoading = FALSE
    /\ isInitialized = FALSE
    /\ pc = "constructed"
    /\ loadPos = 1
    /\ last = Record("constructor", "", "ok")
    /\ outstanding = [k \in Keys |-> 0]
    /\ emptyObs = "none"
    /\ restored = <<>>
    /\ script = -1
    /\ fetchLog = <<>>
    /\ snapshot = <<>>

\* The constructor again, for the instance that replaces the present one.
Construct ==
    /\ requests' = <<>>
    /\ payloads' = <<>>
    /\ uniqueKeyToIndex' = <<>>
    /\ nextIndex' = 0
    /\ inProgress' = {}
    /\ reclaimed' = {}
    /\ isStatePersisted' = TRUE
    /\ isLoading' = FALSE
    /\ isInitialized' = FALSE
    /\ pc' = "constructed"
    /\ loadPos' = 1
    /\ last' = Record("constructor", "", "ok")
    /\ outstanding' = [k \in Keys |-> 0]
    /\ emptyObs' = "none"
    /\ restored' = <<>>
    /\ script' = -1
    /\ fetchLog' = <<>>
    /\ snapshot' = <<>>

\* The first instance of a process that starts with an empty store.
Started(sourceLists, key) ==
    /\ sources \in sourceLists
    /\ persistStateKey = key
    /\ Constructed
    /\ given = <<>>
    /\ store = <<>>
    /\ pending = <<>>
    /\ restarts = 0
    /\ handled = {}
    /\ settled = {}
    /\ owed = {}
    /\ covered = {}
    /\ done = {}

Init == Started(SourceLists, Null)

-----------------------------------------------------------------------------
\* What every callback but the restore callback leaves of the restore.
NotRestoring == restored' = <<>>

\* The history of the scenario after a call: one step further when the call
\* is the next step of Scenario, else off it.
ScriptAfter ==
    IF /\ script >= 0
       /\ script < Len(Scenario)
       /\ last'.op = Scenario[script + 1].op
       /\ last'.key = Scenario[script + 1].key
    THEN script + 1
    ELSE -1

\* The histories a call of a public method other than fetchNextRequest
\* leaves as they are, and the scenario it continues or leaves.
Called ==
    /\ NotRestoring
    /\ script' = ScriptAfter
    /\ UNCHANGED <<owed, fetchLog, snapshot>>
    /\ UNCHANGED envVars

\* initialize(), its synchronous part: the isLoading guard.
initialize ==
    /\ IF isLoading
       THEN /\ last' = Record("initialize", "", "ErrAlreadyLoading")
            /\ UNCHANGED <<isLoading, pc>>
       ELSE /\ isLoading' = TRUE
            /\ pc' = "loading"
            /\ last' = Record("initialize", "", "ok")
    /\ UNCHANGED <<sources, requests, payloads, uniqueKeyToIndex, nextIndex, inProgress,
                   reclaimed, isStatePersisted, isInitialized, loadPos>>
    /\ UNCHANGED histVars
    /\ Called

\* dict[uniqueKey] === undefined, for a dictionary that is an object
\* literal whose own properties are all defined.
IsUndefined(dict, uniqueKey) ==
    /\ uniqueKey \notin DOMAIN dict
    /\ uniqueKey \notin ObjectPrototypeKeys

\* _addRequest: requests after adding uniqueKey (a duplicate is skipped).
AddedRequests(uniqueKey) ==
    IF IsUndefined(uniqueKeyToIndex, uniqueKey)
    THEN Append(requests, uniqueKey)
    ELSE requests

\* _addRequest: the request objects of requests after adding the source at
\* position loadPos.
AddedPayloads(uniqueKey) ==
    IF IsUndefined(uniqueKeyToIndex, uniqueKey)
    THEN Append(payloads, loadPos)
    ELSE payloads

\* _addRequest: uniqueKeyToIndex after adding uniqueKey.
AddedIndex(uniqueKey) ==
    IF IsUndefined(uniqueKeyToIndex, uniqueKey)
    THEN uniqueKeyToIndex @@ (uniqueKey :> Len(requests))
    ELSE uniqueKeyToIndex

\* The sources that are lists to fetch ({ requestsFromUrl }), each named
\* after the document its url serves: "@" and the keys of the urls the
\* regular expression matches in the document, in the order of the matches.
RemoteLists == {"@bba", "@"}

\* urlsStr.match(regex) for the document of a list to fetch, as the keys of
\* the requests built from the matches (no match at all is null in the
\* code, and nothing is added then).
Matches(source) == IF source = "@bba" THEN <<"b", "b", "a">> ELSE <<>>

\* One callback of Promise.mapSeries(this.sources, ...) for a source that is
\* no list to fetch: it is added with _addRequest, which throws when the
\* uniqueKey is not valid, and initialize() is rejected then.
loadSource ==
    /\ pc = "loading"
    /\ loadPos <= Len(sources)
    /\ sources[loadPos] \notin RemoteLists
    /\ LET uniqueKey == sources[loadPos] IN
        IF ~ensureUniqueKeyValid(uniqueKey)
        THEN /\ pc' = "failed"
             /\ last' = Record("loadSource", uniqueKey, "ErrUniqueKey")
             /\ UNCHANGED <<requests, payloads, uniqueKeyToIndex, loadPos>>
        ELSE /\ requests' = AddedRequests(uniqueKey)
             /\ payloads' = AddedPayloads(uniqueKey)
             /\ uniqueKeyToIndex' = AddedIndex(uniqueKey)
             /\ last' = Record("loadSource", uniqueKey, "ok")
             /\ loadPos' = loadPos + 1
             /\ pc' = pc
    /\ UNCHANGED <<sources, nextIndex, inProgress, reclaimed, isStatePersisted,
                   isLoading, isInitialized>>
    /\ UNCHANGED histVars
    /\ NotRestoring
    /\ UNCHANGED <<script, owed, fetchLog, snapshot>>
    /\ UNCHANGED envVars

\* The list loaded so far.
LoadedList ==
    [requests |-> requests, payloads |-> payloads, uniqueKeyToIndex |-> uniqueKeyToIndex]

\* _addRequest on a list loaded so far, for a request of the source at
\* position loadPos.
addRequest(list, uniqueKey) ==
    IF IsUndefined(list.uniqueKeyToIndex, uniqueKey)
    THEN [requests |-> Append(list.requests, uniqueKey),
          payloads |-> Append(list.payloads, loadPos),
          uniqueKeyToIndex |-> list.uniqueKeyToIndex @@ (uniqueKey :> Len(list.requests))]
    ELSE list

\* Mutant of AddRequests: the matches are added last first.
RECURSIVE AddRequestsLastFirst(_, _)
AddRequestsLastFirst(list, urlsArr) ==
    IF urlsArr = <<>>
    THEN list
    ELSE AddRequestsLastFirst(addRequest(list, urlsArr[Len(urlsArr)]),
                              SubSeq(urlsArr, 1, Len(urlsArr) - 1))

\* urlsArr.forEach(url => this._addRequest(...)).
RECURSIVE AddRequests(_, _)
AddRequests(list, urlsArr) ==
    IF urlsArr = <<>>
    THEN list
    ELSE AddRequests(addRequest(list, Head(urlsArr)), Tail(urlsArr))

\* One callback of Promise.mapSeries(this.sources, ...) for a list to
\* fetch: _addRequestsFromUrl sends the GET request, and the next source
\* waits for the promise it returns.
requestList ==
    /\ pc = "loading"
    /\ loadPos <= Len(sources)
    /\ sources[loadPos] \in RemoteLists
    /\ pc' = "fetching"
    /\ last' = Record("requestList", sources[loadPos], "ok")
    /\ UNCHANGED <<sources, loadPos>>
    /\ UNCHANGED progVars
    /\ UNCHANGED histVars
    /\ NotRestoring
    /\ UNCHANGED <<script, owed, fetchLog, snapshot>>
    /\ UNCHANGED envVars

\* The response of the GET request has come: the matches are added in
\* their order.
listFetched ==
    /\ pc = "fetching"
    /\ LET list == AddRequests(LoadedList, Matches(sources[loadPos])) IN
        /\ requests' = list.requests
        /\ payloads' = list.payloads
        /\ uniqueKeyToIndex' = list.uniqueKeyToIndex
    /\ loadPos' = loadPos + 1
    /\ pc' = "loading"
    /\ last' = Record("listFetched", sources[loadPos], "ok")
    /\ UNCHANGED <<sources, nextIndex, inProgress, reclaimed, isStatePersisted,
                   isLoading, isInitialized>>
    /\ UNCHANGED histVars
    /\ NotRestoring
    /\ UNCHANGED <<script, owed, fetchLog, snapshot>>
    /\ UNCHANGED envVars

\* The GET request has failed: the catch callback logs the error and throws
\* another, and initialize() is rejected.
listFailed ==
    /\ pc = "fetching"
    /\ pc' = "failed"
    /\ last' = Record("listFailed", sources[loadPos], "ErrCannotFetch")
    /\ UNCHANGED <<sources, loadPos>>
    /\ UNCHANGED progVars
    /\ UNCHANGED histVars
    /\ NotRestoring
    /\ UNCHANGED <<script, owed, fetchLog, snapshot>>
    /\ UNCHANGED envVars

\* Mutant of StateError: the key at nextIndex is not compared with
\* nextUniqueKey.
StateErrorNoOrder(state) ==
    IF state.kind = "string" \/ Lt(state.nextIndex, 0)
    THEN "ErrNextIndexInvalid"
    ELSE IF \/ Gt(state.nextIndex, Len(requests))
            \/ state.kind = "half" /\ state.nextIndex = Len(requests)
    THEN "ErrTooFewRequests"
    ELSE IF state.kind = "half"
    THEN "ErrTypeError"
    ELSE IF \E uniqueKey \in state.inProgress : uniqueKey \notin DOMAIN uniqueKeyToIndex
    THEN "ErrUnknownUniqueKey"
    ELSE "ok"

\* The checks of the restore callback, in the order of the code: the error
\* it throws for this state object, or "ok".  For the number nextIndex + 1/2
\* the comparisons are those of the code on that number, and
\* requests[nextIndex + 1/2] is undefined, so reading its uniqueKey throws.
StateError(state) ==
    IF state.kind = "string" \/ Lt(state.nextIndex, 0)
    THEN "ErrNextIndexInvalid"
    ELSE IF \/ Gt(state.nextIndex, Len(requests))
            \/ state.kind = "half" /\ state.nextIndex = Len(requests)
    THEN "ErrTooFewRequests"
    ELSE IF state.kind = "half"
    THEN "ErrTypeError"
    ELSE IF Lt(state.nextIndex, Len(requests))
            /\ At(state.nextIndex) # state.nextUniqueKey
    THEN "ErrOrderChanged"
    ELSE IF \E uniqueKey \in state.inProgress : uniqueKey \notin DOMAIN uniqueKeyToIndex
    THEN "ErrUnknownUniqueKey"
    ELSE "ok"

\* Mutant of DeleteFromInProgress: every key is deleted.
DeleteAll(state) == state.inProgress

\* Mutant of DeleteFromInProgress: nothing is deleted.
DeleteNothing(state) == {}

\* deleteFromInProgress: the keys of state.inProgress whose index is >= nextIndex.
DeleteFromInProgress(state) ==
    {uniqueKey \in state.inProgress : Ge(uniqueKeyToIndex[uniqueKey], state.nextIndex)}

\* What this.initialStatePromise may resolve with, when it is a state
\* object.  The first instance of a process is constructed with any
\* options.state, or none; the instance of a round trip with the snapshot
\* given; the instance of a restarted process with persistStateKey and no
\* options.state, so that the value of the store is read.
InitialStates ==
    IF given # <<>>
    THEN {given[1]}
    ELSE IF restarts = 0
    THEN StateObjects
    ELSE {store[i] : i \in DOMAIN store}

\* Whether this.initialStatePromise may resolve with no state object (the
\* store of a first instance is empty).
NoInitialState ==
    IF given # <<>>
    THEN FALSE
    ELSE IF restarts = 0
    THEN TRUE
    ELSE store = <<>>

\* The restore callback with a state object.
restoreState ==
    /\ pc = "loading"
    /\ loadPos > Len(sources)
    /\ \E state \in InitialStates :
        /\ restored' = <<state>>
        /\ IF StateError(state) # "ok"
           THEN /\ pc' = "failed"
                /\ last' = Record("restoreState", "", StateError(state))
                /\ UNCHANGED <<nextIndex, inProgress, reclaimed>>
           ELSE /\ nextIndex' = state.nextIndex
                /\ inProgress' = state.inProgress \ DeleteFromInProgress(state)
                /\ reclaimed' = inProgress'
                /\ pc' = "restored"
                /\ last' = Record("restoreState", "", "ok")
    /\ UNCHANGED <<sources, requests, payloads, uniqueKeyToIndex, isStatePersisted,
                   isLoading, isInitialized, loadPos>>
    /\ UNCHANGED histVars
    /\ script' = -1
    /\ settled' = IF given = <<>> /\ restarts = 0 /\ pc' = "restored"
                   THEN {requests[i] : i \in {j \in DOMAIN requests : Lt(j - 1, nextIndex')}}
                            \ inProgress'
                   ELSE settled
    /\ UNCHANGED <<owed, fetchLog, snapshot>>
    /\ UNCHANGED <<persistStateKey, given, store, pending, restarts, covered>>

\* The restore callback when there is no state object: if (!state) return.
restoreNothing ==
    /\ pc = "loading"
    /\ loadPos > Len(sources)
    /\ NoInitialState
    /\ pc' = "restored"
    /\ last' = Record("restoreNothing", "", "ok")
    /\ UNCHANGED <<sources, requests, payloads, uniqueKeyToIndex, nextIndex, inProgress,
                   reclaimed, isStatePersisted, isLoading, isInitialized, loadPos>>
    /\ UNCHANGED histVars
    /\ NotRestoring
    /\ UNCHANGED <<script, owed, fetchLog, snapshot>>
    /\ UNCHANGED envVars

\* The last callback of initialize(): this.isInitialized = true (the
\* PERSIST_STATE handler it registers when persistStateKey is given is the
\* action persistState, enabled from here on).
finishInitialize ==
    /\ pc = "restored"
    /\ isInitialized' = TRUE
    /\ pc' = "done"
    /\ last' = Record("finishInitialize", "", "ok")
    /\ UNCHANGED <<sources, requests, payloads, uniqueKeyToIndex, nextIndex, inProgress,
                   reclaimed, isStatePersisted, isLoading, loadPos>>
    /\ UNCHANGED histVars
    /\ NotRestoring
    /\ script' = IF sources = <<"a", "b", "c">> /\ last.op = "restoreNothing"
                  THEN 0
                  ELSE -1
    /\ UNCHANGED <<owed, fetchLog, snapshot>>
    /\ UNCHANGED envVars

-----------------------------------------------------------------------------
\* Mutant of ensureIsInitialized: nothing is checked.
ensureNothing == TRUE

\* _ensureIsInitialized: whether it returns (it throws otherwise).
ensureIsInitialized == isInitialized

\* Mutant of GetStateValue: the cursor is not exported.
GetStateValueNoCursor ==
    [kind |-> "integer",
     nextIndex |-> 0,
     nextUniqueKey |-> IF Lt(0, Len(requests)) THEN At(0) ELSE Null,
     inProgress |-> inProgress]

\* getState(): the object it returns.
GetStateValue ==
    [kind |-> "integer",
     nextIndex |-> nextIndex,
     nextUniqueKey |-> IF Lt(nextIndex, Len(requests)) THEN At(nextIndex) ELSE Null,
     inProgress |-> inProgress]

\* What the caller of getState() reads in the object it was returned: the
\* nextIndex and nextUniqueKey it was made with, and in inProgress what
\* this.inProgress holds now.
SnapshotRead == [snapshot[1] EXCEPT !.inProgress = inProgress]

getState ==
    /\ IF ~ensureIsInitialized
       THEN /\ last' = Record("getState", "", "ErrNotInitialized")
            /\ UNCHANGED snapshot
       ELSE /\ last' = Record("getState", "", "ok")
            /\ snapshot' = <<GetStateValue>>
    /\ UNCHANGED <<sources, pc, loadPos>>
    /\ UNCHANGED progVars
    /\ UNCHANGED histVars
    /\ NotRestoring
    /\ script' = ScriptAfter
    /\ UNCHANGED <<owed, fetchLog>>
    /\ UNCHANGED envVars

\* Mutant of IsEmptyValue: the reclaimed requests are not looked at.
IsEmptyValueCursorOnly == Ge(nextIndex, Len(requests))

\* isEmpty(): the value it resolves with.
IsEmptyValue == getFirstKey(reclaimed) = {Undefined} /\ Ge(nextIndex, Len(requests))

\* Mutant of IsFinishedValue: the requests in progress are not looked at.
IsFinishedValueCursorOnly == Ge(nextIndex, Len(requests))

\* isFinished(): the value it resolves with.
IsFinishedValue == getFirstKey(inProgress) = {Undefined} /\ Ge(nextIndex, Len(requests))

Str(b) == IF b THEN "true" ELSE "false"

isEmpty ==
    /\ IF ~ensureIsInitialized
       THEN /\ last' = Record("isEmpty", "", "ErrNotInitialized")
            /\ UNCHANGED emptyObs
       ELSE /\ last' = Record("isEmpty", "", Str(IsEmptyValue))
            /\ emptyObs' = IF IsEmptyValue THEN "true" ELSE emptyObs
    /\ UNCHANGED <<sources, pc, loadPos, handled, outstanding, done>>
    /\ UNCHANGED progVars
    /\ Called

isFinished ==
    /\ IF ~ensureIsInitialized
       THEN last' = Record("isFinished", "", "ErrNotInitialized")
       ELSE last' = Record("isFinished", "", Str(IsFinishedValue))
    /\ UNCHANGED <<sources, pc, loadPos>>
    /\ UNCHANGED progVars
    /\ UNCHANGED histVars
    /\ Called

\* A saturating counter for the history of dispatches.
Bump(n) == IF n < 2 THEN n + 1 ELSE 2

\* Mutant of FetchReclaimed: the key is not deleted from reclaimed.
FetchReclaimedNoDelete(uniqueKey) ==
    /\ last' = Record("fetchNextRequest", "", At(uniqueKeyToIndex[uniqueKey]))
    /\ UNCHANGED <<nextIndex, inProgress, reclaimed, isStatePersisted>>

\* fetchNextRequest(): the branch that returns a reclaimed request.
FetchReclaimed(uniqueKey) ==
    /\ reclaimed' = reclaimed \ {uniqueKey}
    /\ last' = Record("fetchNextRequest", "", At(uniqueKeyToIndex[uniqueKey]))
    /\ UNCHANGED <<nextIndex, inProgress, isStatePersisted>>

\* Mutant of FetchNext: the cursor is not advanced.
FetchNextNoAdvance ==
    IF Lt(nextIndex, Len(requests))
    THEN /\ inProgress' = inProgress \cup {At(nextIndex)}
         /\ isStatePersisted' = FALSE
         /\ last' = Record("fetchNextRequest", "", At(nextIndex))
         /\ UNCHANGED <<nextIndex, reclaimed>>
    ELSE /\ last' = Record("fetchNextRequest", "", Null)
         /\ UNCHANGED <<nextIndex, inProgress, reclaimed, isStatePersisted>>

\* Mutant of FetchNext: the request returned is not recorded in inProgress.
FetchNextNotInProgress ==
    IF Lt(nextIndex, Len(requests))
    THEN /\ nextIndex' = nextIndex + 1
         /\ isStatePersisted' = FALSE
         /\ last' = Record("fetchNextRequest", "", At(nextIndex))
         /\ UNCHANGED <<inProgress, reclaimed>>
    ELSE /\ last' = Record("fetchNextRequest", "", Null)
         /\ UNCHANGED <<nextIndex, inProgress, reclaimed, isStatePersisted>>

\* fetchNextRequest(): the branch that returns the next request, or null.
FetchNext ==
    IF Lt(nextIndex, Len(requests))
    THEN /\ inProgress' = inProgress \cup {At(nextIndex)}
         /\ nextIndex' = nextIndex + 1
         /\ isStatePersisted' = FALSE
         /\ last' = Record("fetchNextRequest", "", At(nextIndex))
         /\ UNCHANGED reclaimed
    ELSE /\ last' = Record("fetchNextRequest", "", Null)
         /\ UNCHANGED <<nextIndex, inProgress, reclaimed, isStatePersisted>>

\* Mutant of FetchBody: the next request is preferred to the reclaimed ones.
FetchBodyNewFirst ==
    IF Lt(nextIndex, Len(requests))
    THEN FetchNext
    ELSE \E uniqueKey \in getFirstKey(reclaimed) :
            IF uniqueKey # Undefined
            THEN FetchReclaimed(uniqueKey)
            ELSE FetchNext

\* fetchNextRequest(): the body after _ensureIsInitialized.
FetchBody ==
    \E uniqueKey \in getFirstKey(reclaimed) :
        IF uniqueKey # Undefined
        THEN FetchReclaimed(uniqueKey)
        ELSE FetchNext

fetchNextRequest ==
    /\ IF ~ensureIsInitialized
       THEN /\ last' = Record("fetchNextRequest", "", "ErrNotInitialized")
            /\ UNCHANGED <<nextIndex, inProgress, reclaimed, isStatePersisted>>
       ELSE FetchBody
    /\ outstanding' = IF last'.ret \in Keys
                      THEN [outstanding EXCEPT ![last'.ret] = Bump(@)]
                      ELSE outstanding
    /\ emptyObs' = IF emptyObs \in {"true", "trueHandled", "stale"}
                   THEN "fetched:" \o emptyObs
                   ELSE "none"
    /\ UNCHANGED <<sources, requests, payloads, uniqueKeyToIndex, isLoading, isInitialized,
                   pc, loadPos, handled, done, snapshot>>
    /\ NotRestoring
    /\ script' = ScriptAfter
    /\ owed' = owed \ {last'.ret}
    /\ fetchLog' = IF given = <<>> \/ ~isInitialized
                    THEN fetchLog
                    ELSE Append(fetchLog, last'.ret)
    /\ UNCHANGED envVars

\* The arguments markRequestHandled and reclaimRequest are called with: any
\* key, a key that names a property of Object.prototype, and the empty
\* string, which ensureUniqueKeyValid rejects.
KeyArgs == Keys \cup ObjectPrototypeKeys \cup {""}

\* dict[uniqueKey] read as a condition, for a dictionary that is an object
\* literal whose own properties are all true: a key that names a property
\* of Object.prototype finds the inherited property, which is truthy.
IsTruthy(dict, uniqueKey) ==
    \/ uniqueKey \in dict
    \/ uniqueKey \in ObjectPrototypeKeys

\* Mutant of InProgressAndNotReclaimed: the reclaimed check is missing.
InProgressOnly(uniqueKey) ==
    IF ~IsTruthy(inProgress, uniqueKey)
    THEN "ErrNotInProgress"
    ELSE "ok"

\* Mutant of InProgressAndNotReclaimed: the in-progress check is missing.
NotReclaimedOnly(uniqueKey) ==
    IF IsTruthy(reclaimed, uniqueKey)
    THEN "ErrReclaimed"
    ELSE "ok"

\* _ensureInProgressAndNotReclaimed: the error it throws, or "ok".
InProgressAndNotReclaimed(uniqueKey) ==
    IF ~IsTruthy(inProgress, uniqueKey)
    THEN "ErrNotInProgress"
    ELSE IF IsTruthy(reclaimed, uniqueKey)
    THEN "ErrReclaimed"
    ELSE "ok"

\* The checks markRequestHandled and reclaimRequest make, in the order of
\* the code: the error thrown, or "ok".
CallError(uniqueKey) ==
    IF ~ensureUniqueKeyValid(uniqueKey)
    THEN "ErrUniqueKey"
    ELSE IF InProgressAndNotReclaimed(uniqueKey) # "ok"
    THEN InProgressAndNotReclaimed(uniqueKey)
    ELSE IF ~ensureIsInitialized
    THEN "ErrNotInitialized"
    ELSE "ok"

markRequestHandled ==
    /\ \E uniqueKey \in KeyArgs :
        /\ last' = Record("markRequestHandled", uniqueKey, CallError(uniqueKey))
        /\ IF CallError(uniqueKey) # "ok"
           THEN UNCHANGED <<inProgress, isStatePersisted, handled, emptyObs, done>>
           ELSE /\ inProgress' = inProgress \ {uniqueKey}
                /\ isStatePersisted' = FALSE
                /\ handled' = handled \cup {uniqueKey}
                /\ done' = done \cup {uniqueKey}
                /\ emptyObs' = IF emptyObs = "true" THEN "trueHandled" ELSE emptyObs
    /\ UNCHANGED <<sources, requests, payloads, uniqueKeyToIndex, nextIndex, reclaimed,
                   isLoading, isInitialized, pc, loadPos, outstanding>>
    /\ Called

reclaimRequest ==
    /\ \E uniqueKey \in KeyArgs :
        /\ last' = Record("reclaimRequest", uniqueKey, CallError(uniqueKey))
        /\ IF CallError(uniqueKey) # "ok"
           THEN UNCHANGED <<reclaimed, outstanding, emptyObs>>
           ELSE /\ reclaimed' = reclaimed \cup {uniqueKey}
                /\ outstanding' = [outstanding EXCEPT ![uniqueKey] = 0]
                /\ emptyObs' = IF emptyObs \in {"true", "trueHandled"}
                               THEN "stale"
                               ELSE emptyObs
    /\ UNCHANGED <<sources, requests, payloads, uniqueKeyToIndex, nextIndex, inProgress,
                   isStatePersisted, isLoading, isInitialized, pc, loadPos, handled, done>>
    /\ Called

-----------------------------------------------------------------------------
Next ==
    \/ initialize
    \/ loadSource
    \/ restoreState
    \/ restoreNothing
    \/ finishInitialize
    \/ isEmpty
    \/ isFinished
    \/ getState
    \/ fetchNextRequest
    \/ markRequestHandled
    \/ reclaimRequest

Spec == Init /\ [][Next]_vars

\* getState() on an initialized list, and the construction of a second
\* instance from the same sources with the object returned as options.state.
roundTrip ==
    /\ isInitialized
    /\ given = <<>>
    /\ given' = <<GetStateValue>>
    /\ Construct
    /\ UNCHANGED <<sources, persistStateKey, store, pending, restarts, handled, owed,
                   settled, covered, done>>

\* The first instance as in Spec, then the second, on which initialize()
\* and then fetchNextRequest alone are called, until null was returned.
NextRoundTrip ==
    \/ given = <<>> /\ Next
    \/ roundTrip
    \/ given # <<>> /\ initialize
    \/ given # <<>> /\ loadSource
    \/ given # <<>> /\ restoreState
    \/ given # <<>> /\ finishInitialize
    \/ given # <<>> /\ Len(fetchLog) <= Len(sources) /\ fetchNextRequest

SpecRoundTrip == Init /\ [][NextRoundTrip]_vars

-----------------------------------------------------------------------------
\* A setValue call in flight: the object getState() returned, whether the
\* store has serialized and kept it yet, and (history) what done was when
\* the call was made.
Write(state, serialized) ==
    [state |-> <<state>>, serialized |-> serialized, done |-> done]

\* A setValue call whose object the store has serialized: the object is of
\* no use any more, the promise of the call is what is left in flight.
Serialized == [state |-> <<>>, serialized |-> TRUE, done |-> {}]

\* pending without its i-th write.
Without(i) == [j \in 1 .. Len(pending) - 1 |-> IF j < i THEN pending[j] ELSE pending[j + 1]]

\* Mutant of persistState: the state is written whether or not it changed.
persistStateAlways ==
    /\ isInitialized
    /\ persistStateKey # Null
    /\ pending' = Append(pending, Write(GetStateValue, FALSE))
    /\ last' = Record("persistState", "", "setValue")
    /\ UNCHANGED <<sources, pc, loadPos, persistStateKey, given, store, restarts,
                   restored, script, owed, fetchLog, settled, covered, snapshot>>
    /\ UNCHANGED progVars
    /\ UNCHANGED histVars

\* The PERSIST_STATE handler registered by initialize(): nothing when the
\* state is persisted, else setValue(persistStateKey, getState()), however
\* many calls are in flight already.
persistState ==
    /\ isInitialized
    /\ persistStateKey # Null
    /\ IF isStatePersisted
       THEN /\ last' = Record("persistState", "", "return")
            /\ UNCHANGED pending
       ELSE /\ pending' = Append(pending, Write(GetStateValue, FALSE))
            /\ last' = Record("persistState", "", "setValue")
    /\ UNCHANGED <<sources, pc, loadPos, persistStateKey, given, store, restarts,
                   restored, script, owed, fetchLog, settled, covered, snapshot>>
    /\ UNCHANGED progVars
    /\ UNCHANGED histVars

\* The store serializes the object of a setValue call and keeps it.  The
\* object holds nextIndex and nextUniqueKey as getState() read them and
\* this.inProgress itself, so the inProgress kept is the one of this moment.
storeWrite ==
    /\ \E i \in DOMAIN pending :
        /\ ~pending[i].serialized
        /\ store' = <<[pending[i].state[1] EXCEPT !.inProgress = inProgress]>>
        /\ pending' = <<Serialized>> \o Without(i)
        /\ covered' = pending[i].done
    /\ last' = Record("storeWrite", "", "ok")
    /\ UNCHANGED <<sources, pc, loadPos, persistStateKey, given, restarts,
                   restored, script, owed, fetchLog, settled, snapshot>>
    /\ UNCHANGED progVars
    /\ UNCHANGED histVars

\* The promise of setValue is fulfilled: this.isStatePersisted = true.
writeDone ==
    /\ \E i \in DOMAIN pending :
        /\ pending[i].serialized
        /\ pending' = Without(i)
    /\ isStatePersisted' = TRUE
    /\ last' = Record("writeDone", "", "ok")
    /\ UNCHANGED <<sources, requests, payloads, uniqueKeyToIndex, nextIndex, inProgress,
                   reclaimed, isLoading, isInitialized, pc, loadPos>>
    /\ UNCHANGED <<persistStateKey, given, store, restarts, restored, script, owed,
                   fetchLog, settled, covered, snapshot>>
    /\ UNCHANGED histVars

\* The promise of setValue is rejected: the catch callback logs the error.
writeFail ==
    /\ \E i \in DOMAIN pending : pending' = Without(i)
    /\ last' = Record("writeFail", "", "logged")
    /\ UNCHANGED <<sources, pc, loadPos, persistStateKey, given, store, restarts,
                   restored, script, owed, fetchLog, settled, covered, snapshot>>
    /\ UNCHANGED progVars
    /\ UNCHANGED histVars

\* The uniqueKeys of the sources.
SourceKeys == {sources[i] : i \in DOMAIN sources}

\* The process stops and starts again: a new instance is constructed from
\* the same sources and the same persistStateKey; the writes in flight are
\* lost, the store is kept.
restart ==
    /\ persistStateKey # Null
    /\ restarts < MaxRestarts
    /\ restarts' = restarts + 1
    /\ Construct
    /\ pending' = <<>>
    /\ owed' = SourceKeys \ (handled \cup settled)
    /\ done' = covered
    /\ UNCHANGED <<sources, persistStateKey, given, store, handled, settled, covered>>

\* The uniqueKeys of the sources of SpecPersist, and of the requests
\* markRequestHandled and reclaimRequest are called with there.
PersistKeys == {"a", "b"}

\* The source lists of SpecPersist: the lists of distinct requests over
\* PersistKeys (sources that repeat a uniqueKey are those of Spec and
\* SpecLoad).
PersistSourceLists ==
    {list \in SeqsUpTo(PersistKeys, Cardinality(PersistKeys)) :
        \A i, j \in DOMAIN list : list[i] = list[j] => i = j}

InitPersist == Started(PersistSourceLists, PersistKey)

NextPersist ==
    \/ initialize
    \/ loadSource
    \/ restoreState
    \/ restoreNothing
    \/ finishInitialize
    \/ fetchNextRequest
    \/ markRequestHandled /\ last'.key \in PersistKeys
    \/ reclaimRequest /\ last'.key \in PersistKeys
    \/ (isStatePersisted \/ Len(pending) < MaxPending) /\ persistState
    \/ storeWrite
    \/ writeDone
    \/ writeFail
    \/ restart

SpecPersist == InitPersist /\ [][NextPersist]_vars

\* The loading of the sources alone: initialize() on a list constructed
\* without a state object.
InitLoad == Started(LoadSourceLists, Null)

NextLoad ==
    \/ initialize
    \/ loadSource
    \/ restoreNothing
    \/ finishInitialize

SpecLoad == InitLoad /\ [][NextLoad]_vars

\* initialize() alone, over every kind of source (a request, a request
\* whose uniqueKey is not valid, a list to fetch), with and without a state
\* object and a persistStateKey, and the calls made before it has ended.
InitializeSourceLists == SeqsUpTo(Keys \cup RemoteLists \cup {""}, MaxSources)

\* The state objects of SpecInitialize.
InitializeStates ==
    [kind : {"integer"},
     nextIndex : {0, 1},
     nextUniqueKey : {"b"},
     inProgress : {{}, {"a"}}]

InitInitialize ==
    /\ sources \in InitializeSourceLists
    /\ persistStateKey \in {Null, PersistKey}
    /\ Constructed
    /\ given \in {<<>>} \cup {<<state>> : state \in InitializeStates}
    /\ store = <<>>
    /\ pending = <<>>
    /\ restarts = 0
    /\ handled = {}
    /\ settled = {}
    /\ owed = {}
    /\ covered = {}
    /\ done = {}

NextInitialize ==
    \/ initialize
    \/ loadSource
    \/ requestList
    \/ listFetched
    \/ listFailed
    \/ given # <<>> /\ restoreState
    \/ restoreNothing
    \/ finishInitialize
    \/ ~isInitialized /\ isEmpty
    \/ ~isInitialized /\ isFinished
    \/ ~isInitialized /\ getState
    \/ ~isInitialized /\ fetchNextRequest
    \/ ~isInitialized /\ markRequestHandled
    \/ ~isInitialized /\ reclaimRequest
    \/ (isStatePersisted \/ Len(pending) < MaxPending) /\ persistState

SpecInitialize == InitInitialize /\ [][NextInitialize]_vars

\* A list constructed without a state object, on which fetchNextRequest
\* keeps being called: every call of it that is made runs (a callback of
\* Promise.resolve().then is run by the event loop), whatever
\* markRequestHandled and reclaimRequest calls run in between.
NextRetry ==
    \/ initialize
    \/ loadSource
    \/ restoreNothing
    \/ finishInitialize
    \/ fetchNextRequest
    \/ markRequestHandled
    \/ reclaimRequest

SpecRetry == Init /\ [][NextRetry]_vars /\ WF_vars(fetchNextRequest)

\* A fetchNextRequest that returns a request.
FetchItem == fetchNextRequest /\ last'.ret \in Keys

\* A markRequestHandled or a reclaimRequest of the key that succeeds.
Answer(uniqueKey) ==
    /\ markRequestHandled \/ reclaimRequest
    /\ last'.key = uniqueKey
    /\ last'.ret = "ok"

\* A list with any state object or none, and workers that go on:
\* fetchNextRequest is called as long as it returns a request, and every
\* request it returned is answered by markRequestHandled or by
\* reclaimRequest.
NextProgress ==
    \/ initialize
    \/ loadSource
    \/ restoreState
    \/ restoreNothing
    \/ finishInitialize
    \/ fetchNextRequest
    \/ markRequestHandled
    \/ reclaimRequest

SpecProgress ==
    /\ Init
    /\ [][NextProgress]_vars
    /\ WF_vars(FetchItem)
    /\ \A uniqueKey \in Keys : WF_vars(Answer(uniqueKey))

-----------------------------------------------------------------------------
\* A step taken by the body of the named method (every action records itself
\* in last, so last' names the action of the step).
StepOf(op) == last'.op = op

\* The 0-based position of a loaded key.
Position(uniqueKey) == uniqueKeyToIndex[uniqueKey]

\* C1 (no double dispatch): on an initialized list, under any interleaving
\* of fetchNextRequest, markRequestHandled and reclaimRequest, a key that
\* fetchNextRequest returned is not returned again before a reclaimRequest
\* for it succeeded: no key has two dispatches outstanding since its last
\* successful reclaim, so no two workers hold the same request at once.
C1_NoDoubleDispatch == \A k \in Keys : outstanding[k] <= 1

\* C1 happens: a fetch re-dispatched a reclaimed key (one behind the cursor)
\* while another key is held by a worker and a third was handled.
C1_Witness ==
    /\ isInitialized
    /\ last.op = "fetchNextRequest"
    /\ last.ret \in Keys
    /\ Lt(Position(last.ret), nextIndex - 1)
    /\ outstanding[last.ret] = 1
    /\ \E k \in Keys \ {last.ret} : outstanding[k] = 1 /\ k \in inProgress \ reclaimed
    /\ handled # {}

\* C2 (completed is absorbing): once markRequestHandled succeeded for a key,
\* the key is never again in inProgress or in reclaimed, and no
\* fetchNextRequest returns it.
C2_CompletedAbsorbing ==
    /\ handled \cap inProgress = {}
    /\ handled \cap reclaimed = {}
    /\ last.op = "fetchNextRequest" => last.ret \notin handled

\* C2 happens: after a key was handled, another key was reclaimed and a
\* fetch returned a request.
C2_Witness ==
    /\ handled # {}
    /\ last.op = "fetchNextRequest"
    /\ last.ret \in Keys
    /\ \E k \in Keys : outstanding[k] = 0 /\ k \in reclaimed

\* C3 (reclaim before advance): on an initialized list, a fetchNextRequest
\* that finds reclaimed non-empty returns a key of reclaimed, removes exactly
\* that key from reclaimed and leaves nextIndex and inProgress unchanged; and
\* nextIndex changes only in a step that finds reclaimed empty.
C3_ReclaimBeforeAdvance ==
    [][/\ (StepOf("fetchNextRequest") /\ isInitialized /\ reclaimed # {})
            => /\ last'.ret \in reclaimed
               /\ reclaimed' = reclaimed \ {last'.ret}
               /\ nextIndex' = nextIndex
               /\ inProgress' = inProgress
       /\ (isInitialized /\ nextIndex' # nextIndex) => reclaimed = {}]_vars

\* C3 happens: a fetch returned a reclaimed key while requests were still
\* waiting behind the cursor and another key stayed reclaimed.
C3_Witness ==
    /\ isInitialized
    /\ last.op = "fetchNextRequest"
    /\ last.ret \in Keys
    /\ Lt(Position(last.ret), nextIndex - 1)
    /\ Lt(nextIndex, Len(requests))
    /\ handled # {}

\* C4 (dispatch order of new work): on an initialized list with reclaimed
\* empty, fetchNextRequest returns requests[nextIndex], adds its key to
\* inProgress and increments nextIndex by one when nextIndex <
\* requests.length; when nextIndex >= requests.length it returns null and
\* changes nothing.  So the first-time dispatches are requests[0],
\* requests[1], ... in order, none skipped.
C4_DispatchOrder ==
    [][(StepOf("fetchNextRequest") /\ isInitialized /\ reclaimed = {})
        => /\ Lt(nextIndex, Len(requests))
                => /\ last'.ret = At(nextIndex)
                   /\ inProgress' = inProgress \cup {At(nextIndex)}
                   /\ nextIndex' = nextIndex + 1
                   /\ reclaimed' = reclaimed
           /\ Ge(nextIndex, Len(requests))
                => /\ last'.ret = Null
                   /\ UNCHANGED progVars]_vars

\* C4 happens: the last request of a list of MaxSources requests was
\* dispatched for the first time, and a later fetch returned null.
C4_Witness ==
    /\ isInitialized
    /\ last.op = "fetchNextRequest"
    /\ last.ret = Null
    /\ nextIndex = Len(requests)
    /\ Len(requests) = Cardinality(Keys)
    /\ inProgress # {}

\* C5 (failed calls change nothing): markRequestHandled(key) and
\* reclaimRequest(key) fail, and leave requests, nextIndex, inProgress,
\* reclaimed and isStatePersisted unchanged, whenever key is not in
\* inProgress or is already in reclaimed.
C5_RejectedCalls ==
    [][((StepOf("markRequestHandled") \/ StepOf("reclaimRequest"))
        /\ (last'.key \notin inProgress \/ last'.key \in reclaimed))
        => /\ last'.ret \in {"ErrUniqueKey", "ErrNotInProgress", "ErrReclaimed"}
           /\ UNCHANGED queueVars]_vars

\* C5 happens: on an initialized list a second reclaimRequest of a key
\* failed because the key is already reclaimed, with another key handled.
C5_Witness ==
    /\ isInitialized
    /\ last = Record("reclaimRequest", last.key, "ErrReclaimed")
    /\ last.key \in reclaimed
    /\ outstanding[last.key] = 0
    /\ handled # {}

\* C6 (reclaimed within inProgress): in every reachable state, fresh or
\* restored from a state object, reclaimed is a subset of inProgress.
C6_ReclaimedSubset == reclaimed \subseteq inProgress

\* C6 happens: on an initialized list some keys are reclaimed, another is in
\* progress and not reclaimed, and one was handled.
C6_Witness ==
    /\ isInitialized
    /\ reclaimed # {}
    /\ inProgress \ reclaimed # {}
    /\ handled # {}

\* C7 (inProgress lies behind the cursor): in every reachable state of an
\* initialized list, also right after a state object was restored, every
\* key of inProgress is the key of a loaded request at a position < nextIndex.
C7_InProgressBehindCursor ==
    isInitialized =>
        \A k \in inProgress :
            k \in DOMAIN uniqueKeyToIndex /\ Lt(Position(k), nextIndex)

\* C8 (the cursor is monotonic and in range): once initialized, nextIndex
\* never decreases and 0 <= nextIndex <= requests.length.
C8_CursorMonotonicInRange ==
    /\ [](isInitialized => Ge(nextIndex, 0) /\ Ge(Len(requests), nextIndex))
    /\ [][isInitialized => ~Lt(nextIndex', nextIndex)]_vars

\* C9 (isEmpty): on an initialized list isEmpty() resolves true exactly when
\* reclaimed is empty and nextIndex >= requests.length, and a
\* fetchNextRequest returns null exactly in the states where isEmpty() is true.
C9_EmptyIffFetchNull ==
    [][/\ (StepOf("isEmpty") /\ isInitialized)
            => (last'.ret = "true"
                    <=> (reclaimed = {} /\ Ge(nextIndex, Len(requests))))
       /\ (StepOf("fetchNextRequest") /\ isInitialized)
            => (last'.ret = Null <=> IsEmptyValue)]_vars

\* C10 as stated: after an isEmpty() that resolved true, the next
\* fetchNextRequest returns null, whatever markRequestHandled and
\* reclaimRequest calls of other workers ran in between.
C10_EmptyThenNull ==
    [][(StepOf("fetchNextRequest")
        /\ emptyObs \in {"true", "trueHandled", "stale"})
        => last'.ret = Null]_vars

\* C10 amended: after an isEmpty() that resolved true, the next
\* fetchNextRequest returns null provided no reclaimRequest succeeded in
\* between; markRequestHandled calls in between change nothing to that.
C10_EmptyThenNullUnlessReclaimed ==
    [][(StepOf("fetchNextRequest") /\ emptyObs \in {"true", "trueHandled"})
        => last'.ret = Null]_vars

\* C10 amended happens: isEmpty() resolved true, a markRequestHandled of
\* another worker succeeded, and the fetchNextRequest that followed
\* returned null.
C10_Witness ==
    /\ last = Record("fetchNextRequest", "", Null)
    /\ emptyObs = "fetched:trueHandled"
    /\ inProgress # {}

\* C11 (isFinished): on an initialized list isFinished() resolves true
\* exactly when inProgress is empty and nextIndex >= requests.length, and in
\* every reachable state isFinished() true implies isEmpty() true.  The
\* converse fails: C11_Witness is reachable.
C11_FinishedImpliesEmpty ==
    /\ [](isInitialized => (IsFinishedValue => IsEmptyValue))
    /\ [][(StepOf("isFinished") /\ isInitialized)
            => /\ last'.ret = "true"
                    <=> (inProgress = {} /\ Ge(nextIndex, Len(requests)))
               /\ last'.ret = "true" => IsEmptyValue]_vars

\* C11 happens, and the converse fails: with the only request fetched and
\* not yet handled, isFinished() resolved false in a state where isEmpty()
\* is true.
C11_Witness ==
    /\ isInitialized
    /\ last = Record("isFinished", "", "false")
    /\ Len(requests) = 1
    /\ inProgress = {At(0)}
    /\ IsEmptyValue

-----------------------------------------------------------------------------
\* The uniqueKeys of the loaded requests.
Loaded == {requests[i] : i \in DOMAIN requests}

\* The errors of the restore callback that speak of the cursor alone.
CursorErrors == {"ErrNextIndexInvalid", "ErrTooFewRequests", "ErrTypeError"}

\* The state object has drifted: its nextIndex is a position of the loaded
\* list and the request there has another key than nextUniqueKey.
Drift(state) ==
    /\ state.kind = "integer"
    /\ Ge(state.nextIndex, 0)
    /\ Lt(state.nextIndex, Len(requests))
    /\ At(state.nextIndex) # state.nextUniqueKey

\* C13 (restore rejects drift): when the restore callback runs with a state
\* object whose nextIndex is a position of the freshly loaded list and the
\* key there differs from nextUniqueKey, initialize() fails with the
\* consistency error of the changed order; a failed initialize() leaves the
\* list uninitialized for ever, with nextIndex 0 and inProgress and
\* reclaimed empty.
C13_RestoreRejectsDrift ==
    /\ [][(StepOf("restoreState") /\ Drift(restored'[1]))
            => /\ pc' = "failed"
               /\ last'.ret = "ErrOrderChanged"]_vars
    /\ [](pc = "failed"
            => /\ ~isInitialized
               /\ nextIndex = 0
               /\ inProgress = {}
               /\ reclaimed = {})
    /\ [][pc = "failed" => pc' = "failed"]_vars

\* C13 happens: the restore callback rejected a state object whose cursor
\* is at the second of three loaded requests but whose nextUniqueKey is the
\* key of another loaded request.
C13_Witness ==
    /\ pc = "failed"
    /\ last = Record("restoreState", "", "ErrOrderChanged")
    /\ restored # <<>>
    /\ Len(requests) = 3
    /\ restored[1].nextIndex = 1
    /\ restored[1].nextUniqueKey \in Loaded \ {At(1)}

\* The cursor the specification accepts: a non-negative integer that is at
\* most the number of loaded requests.
ValidCursor(state) ==
    /\ state.kind = "integer"
    /\ state.nextIndex # NaN
    /\ state.nextIndex >= 0
    /\ state.nextIndex <= Len(requests)

\* C14 (restore validates the cursor): the restore callback fails for every
\* state object whose nextIndex is not a non-negative integer <= the number
\* of loaded requests (negative, too large, not an integer, not a number),
\* and raises no error about the cursor otherwise.
C14_ValidatesCursor ==
    [][StepOf("restoreState")
        => /\ ~ValidCursor(restored'[1]) => pc' = "failed"
           /\ ValidCursor(restored'[1]) => last'.ret \notin CursorErrors]_vars

\* The keys of the state object that the restore drops: those of loaded
\* requests at a position >= nextIndex.
Dropped(state) ==
    {k \in state.inProgress \cap Loaded : Ge(Position(k), state.nextIndex)}

\* C15 (restore of the in-flight set): when the restore callback runs, a
\* key of the state object's inProgress that is the key of no loaded request
\* makes initialize() fail, and it is the only thing about inProgress that
\* does: with every key loaded the restore succeeds or fails for the cursor
\* or the order alone.  After a successful restore inProgress is the state
\* object's set minus the keys at positions >= nextIndex, and every key at a
\* position < nextIndex is kept.
C15_RestoreInFlight ==
    [][StepOf("restoreState")
        => LET state == restored'[1] IN
            /\ ~(state.inProgress \subseteq Loaded) => pc' = "failed"
            /\ last'.ret = "ErrUnknownUniqueKey" => ~(state.inProgress \subseteq Loaded)
            /\ state.inProgress \subseteq Loaded
                => last'.ret \in {"ok", "ErrOrderChanged"} \cup CursorErrors
            /\ last'.ret = "ok"
                => /\ pc' = "restored"
                   /\ inProgress' = state.inProgress \ Dropped(state)
                   /\ \A k \in state.inProgress :
                        Lt(Position(k), state.nextIndex) => k \in inProgress']_vars

\* C15 happens: a restore succeeded with a state object that holds a key
\* before the cursor, which is kept, and one at or after it, which is
\* dropped.
C15_Witness ==
    /\ pc = "restored"
    /\ last = Record("restoreState", "", "ok")
    /\ restored # <<>>
    /\ Dropped(restored[1]) # {}
    /\ inProgress # {}
    /\ inProgress = restored[1].inProgress \ Dropped(restored[1])

\* The public methods of a list other than initialize().
PublicCalls ==
    {"fetchNextRequest", "markRequestHandled", "reclaimRequest", "isEmpty",
     "isFinished", "getState"}

\* What a rejected call throws.
CallErrors == {"ErrNotInitialized", "ErrUniqueKey", "ErrNotInProgress", "ErrReclaimed"}

\* C17 (operating before initialization): a fetchNextRequest,
\* markRequestHandled, reclaimRequest, isEmpty, isFinished or getState that
\* runs while isInitialized is still false (before initialize(), while the
\* sources load, between the restore and the end of initialize(), or after
\* initialize() failed) throws, and changes none of nextIndex, inProgress,
\* reclaimed and isStatePersisted.
C17_RejectedBeforeInitialized ==
    [][(~isInitialized /\ last'.op \in PublicCalls)
        => /\ last'.ret \in CallErrors
           /\ UNCHANGED <<nextIndex, inProgress, reclaimed, isStatePersisted>>]_vars

\* C17 happens: between a restore that set inProgress and the end of
\* initialize(), a markRequestHandled of a restored key was rejected.
C17_Witness ==
    /\ pc = "restored"
    /\ ~isInitialized
    /\ last.op = "markRequestHandled"
    /\ last.key \in inProgress
    /\ last.ret \in CallErrors

\* C19 (concrete scenario): with the sources a, b, c and no state object,
\* the calls of Scenario made in that order, and no other, resolve with the
\* values of Scenario and leave nextIndex as Scenario says: a (1), b (2),
\* ok, a, ok, c (3), null, true, false, ok, ok, true.
C19_Scenario ==
    script >= 1
        => /\ last.op = Scenario[script].op
           /\ last.ret = Scenario[script].ret
           /\ nextIndex = Scenario[script].cursor

\* C19 happens: the twelve calls of the scenario have been made.
C19_Witness ==
    /\ script = Len(Scenario)
    /\ last = Record("isFinished", "", "true")

\* The position in sources of the first source with this uniqueKey.
FirstOccurrence(uniqueKey) ==
    CHOOSE i \in DOMAIN sources :
        /\ sources[i] = uniqueKey
        /\ \A j \in 1 .. i - 1 : sources[j] # uniqueKey

\* C16 (uniqueness at load): after initialize(), for every source list,
\* requests holds each distinct uniqueKey of the sources exactly once, each
\* request is the one built from the first source with its key, the requests
\* are in the order of those first occurrences, and uniqueKeyToIndex maps
\* every key to the index of the request with that key.
C16_UniqueAtLoad ==
    pc = "done"
        => LET distinct == {sources[i] : i \in DOMAIN sources} IN
            /\ Loaded = distinct
            /\ Len(requests) = Cardinality(distinct)
            /\ \A i \in DOMAIN requests : payloads[i] = FirstOccurrence(requests[i])
            /\ \A i, j \in DOMAIN requests : i < j => payloads[i] < payloads[j]
            /\ DOMAIN uniqueKeyToIndex = distinct
            /\ \A k \in distinct : At(uniqueKeyToIndex[k]) = k

\* C12 (snapshot round-trip): for every reachable state of an initialized
\* list, with nextIndex = k and inProgress = S, getState() holds k and S, and
\* a second list built from the same sources and initialized with that
\* object never fails and starts with nextIndex = k, inProgress = S and
\* reclaimed = S; the fetchNextRequest calls then made on it, with no other
\* call, return each key of S once, in some order, then requests[k],
\* requests[k + 1], ... in the order of the list, then null.
C12_RoundTrip ==
    /\ [][(given = <<>> /\ given' # <<>>)
            => /\ given'[1].nextIndex = nextIndex
               /\ given'[1].inProgress = inProgress]_vars
    /\ [](given # <<>>
            => LET S == given[1].inProgress
                   k == given[1].nextIndex
                   n == Cardinality(given[1].inProgress)
               IN
                /\ pc # "failed"
                /\ (pc \in {"restored", "done"} /\ fetchLog = <<>>)
                    => /\ nextIndex = k
                       /\ inProgress = S
                       /\ reclaimed = S
                /\ \A i \in DOMAIN fetchLog :
                    IF i <= n
                    THEN /\ fetchLog[i] \in S
                         /\ \A j \in 1 .. i - 1 : fetchLog[j] # fetchLog[i]
                    ELSE fetchLog[i] =
                            IF Lt(Plus(k, i - n - 1), Len(requests))
                            THEN At(k + i - n - 1)
                            ELSE Null)

\* C12 happens: the second list returned the two keys that were in progress
\* in the first, then the request at the cursor, then null.
C12_Witness ==
    /\ given # <<>>
    /\ isInitialized
    /\ Cardinality(given[1].inProgress) = 2
    /\ Len(fetchLog) = 4
    /\ fetchLog[3] \in Keys
    /\ fetchLog[4] = Null

\* C18 (persistence trigger): on a persist signal the handler calls
\* setValue with getState() when isStatePersisted is false and does nothing
\* when it is true; the store changes only by the write of such a call, to
\* the cursor of that getState(); a write that succeeds sets
\* isStatePersisted; a write that fails is logged, raises nothing, and
\* leaves isStatePersisted and the list as they are, so that the next
\* signal, finding the flag still false, calls setValue again.
C18_PersistTrigger ==
    /\ [][StepOf("persistState")
            => /\ isStatePersisted => UNCHANGED pending
               /\ ~isStatePersisted
                    => pending' = Append(pending, Write(GetStateValue, FALSE))
               /\ UNCHANGED <<store, isStatePersisted>>]_vars
    /\ [][store' # store
            => /\ StepOf("storeWrite")
               /\ \E i \in DOMAIN pending :
                    /\ ~pending[i].serialized
                    /\ store'[1].nextIndex = pending[i].state[1].nextIndex
                    /\ store'[1].nextUniqueKey = pending[i].state[1].nextUniqueKey]_vars
    /\ [][StepOf("writeDone") => isStatePersisted']_vars
    /\ [][StepOf("writeFail")
            => /\ last'.ret = "logged"
               /\ UNCHANGED <<isStatePersisted, store>>
               /\ UNCHANGED queueVars]_vars

\* C18 happens: a write has failed, nothing is in flight, the state is
\* still not persisted, and the store holds what an earlier signal wrote,
\* which is behind the cursor.
C18_Witness ==
    /\ last = Record("writeFail", "", "logged")
    /\ restarts = 0
    /\ ~isStatePersisted
    /\ pending = <<>>
    /\ store # <<>>
    /\ Lt(store[1].nextIndex, nextIndex)

\* C20 (no lost work across a restart): after the process stopped at any
\* point and a new list was built from the same sources and initialized from
\* what the store holds (the state written last, or nothing), initialize()
\* does not fail, and once fetchNextRequest has returned null every request
\* that was not marked handled before the stop (nor counted as handled by
\* the state object the first list was given) has been returned by
\* fetchNextRequest in the new run.
C20_NoLostWork ==
    restarts >= 1
        => /\ pc # "failed"
           /\ (isInitialized /\ last = Record("fetchNextRequest", "", Null))
                => owed = {}

\* C21 as stated (no duplicated work across a restart): after the process
\* stopped at any point and a new list was built from the same sources and
\* initialized from what the store holds, fetchNextRequest returns no
\* request that was marked handled before the stop.
C21_NoDuplicatedWork ==
    (restarts >= 1 /\ last.op = "fetchNextRequest") => last.ret \notin handled

\* C21 amended: in the new run fetchNextRequest returns no request that was
\* already marked handled when the persist signal ran whose snapshot the
\* new list is initialized from (nor one marked handled in the new run); a
\* request handled after that signal may be returned again.
C21_NoDuplicatedPersistedWork ==
    (restarts >= 1 /\ last.op = "fetchNextRequest") => last.ret \notin done

\* C21 amended happens: in the new run, restored from a snapshot made after
\* one request was handled and before another was, a fetchNextRequest
\* returned a request.
C21_Witness ==
    /\ restarts >= 1
    /\ isInitialized
    /\ last.op = "fetchNextRequest"
    /\ last.ret \in Keys
    /\ covered # {}
    /\ done = covered
    /\ handled \ done # {}

-----------------------------------------------------------------------------
\* The state of a loaded key for a cursor and two dictionaries, with the
\* comparisons of JavaScript: "NONE" when the key is in none of the four.
Classify(uniqueKey, cursor, inFlight, again) ==
    IF uniqueKey \in inFlight
    THEN IF uniqueKey \in again THEN "RECLAIMED" ELSE "DISPATCHED"
    ELSE IF uniqueKey \in again
    THEN "NONE"
    ELSE IF Ge(Position(uniqueKey), cursor)
    THEN "UNSEEN"
    ELSE IF Lt(Position(uniqueKey), cursor)
    THEN "COMPLETED"
    ELSE "NONE"

\* The transitions of a key: its state before, its state after, and the
\* operation that makes it.
Transitions ==
    { <<"UNSEEN", "DISPATCHED", "fetchNextRequest">>,
      <<"RECLAIMED", "DISPATCHED", "fetchNextRequest">>,
      <<"DISPATCHED", "COMPLETED", "markRequestHandled">>,
      <<"DISPATCHED", "RECLAIMED", "reclaimRequest">> }

\* C22 (per-key state machine): on an initialized list every loaded key is
\* UNSEEN, DISPATCHED, RECLAIMED or COMPLETED; every step changes the state
\* of at most one key; and a key changes state only from UNSEEN or RECLAIMED
\* to DISPATCHED by fetchNextRequest, from DISPATCHED to COMPLETED by
\* markRequestHandled and from DISPATCHED to RECLAIMED by reclaimRequest.
C22_KeyStateMachine ==
    /\ [](isInitialized
            => \A k \in Loaded : Classify(k, nextIndex, inProgress, reclaimed) # "NONE")
    /\ [][isInitialized
            => LET before(k) == Classify(k, nextIndex, inProgress, reclaimed)
                   after(k) == Classify(k, nextIndex', inProgress', reclaimed')
                   changed == {k \in Loaded : before(k) # after(k)}
               IN
                /\ Cardinality(changed) <= 1
                /\ \A k \in changed :
                    <<before(k), after(k), last'.op>> \in Transitions]_vars

-----------------------------------------------------------------------------
\* What a source gives to load: its request, or the matches of its document.
Contribution(source) ==
    IF source \in RemoteLists THEN Matches(source) ELSE <<source>>

\* What the sources give to load, in the order of the sources.
RECURSIVE Flatten(_)
Flatten(srcs) ==
    IF srcs = <<>> THEN <<>> ELSE Contribution(Head(srcs)) \o Flatten(Tail(srcs))

\* The first position of a key in a sequence that holds it.
FirstAt(all, uniqueKey) ==
    CHOOSE i \in DOMAIN all :
        /\ all[i] = uniqueKey
        /\ \A j \in 1 .. i - 1 : all[j] # uniqueKey

\* C23 (load order): at every moment requests lists the keys of the sources
\* loaded so far, in the order of the sources and, within a list to fetch,
\* in the order of the matches in its document (each key at its first
\* occurrence); requests changes only by appending, so a later source is
\* never put before the requests of an earlier one; while a list is being
\* fetched, however long it takes, nothing but its response adds requests;
\* and the restore callback runs only after every source was loaded.
C23_LoadOrder ==
    /\ [](LET all == Flatten(SubSeq(sources, 1, loadPos - 1)) IN
            /\ Loaded = {all[i] : i \in DOMAIN all}
            /\ \A i, j \in DOMAIN requests :
                i < j => FirstAt(all, requests[i]) < FirstAt(all, requests[j]))
    /\ [][requests' # requests
            => /\ Len(requests') > Len(requests)
               /\ SubSeq(requests', 1, Len(requests)) = requests
               /\ StepOf("loadSource") \/ StepOf("listFetched")
               /\ pc = "fetching" => StepOf("listFetched")]_vars
    /\ [][(StepOf("restoreState") \/ StepOf("restoreNothing"))
            => /\ loadPos > Len(sources)
               /\ requests = requests'
               /\ Loaded = {Flatten(sources)[i] : i \in DOMAIN Flatten(sources)}]_vars

\* C23 happens: a request, a list to fetch with two distinct matches and
\* another request were loaded, and a state object was restored after them.
C23_Witness ==
    /\ pc = "done"
    /\ sources = <<"c", "@bba", "a">>
    /\ requests = <<"c", "b", "a">>
    /\ payloads = <<1, 2, 2>>
    /\ given # <<>>

-----------------------------------------------------------------------------
\* C24 as stated (a reclaimed request is eventually re-dispatched): when
\* reclaimRequest(key) has succeeded and fetchNextRequest keeps being
\* called, a later fetchNextRequest returns that key, even when other keys
\* are reclaimed and fetched again and again in the meantime.
C24_ReclaimedEventuallyFetched ==
    \A k \in Keys :
        (last = Record("reclaimRequest", k, "ok"))
            ~> (last = Record("fetchNextRequest", "", k))

\* C24 amended: when reclaimRequest(key) has succeeded and fetchNextRequest
\* keeps being called, a later fetchNextRequest returns that key or a later
\* reclaimRequest of another key succeeds: the key is returned unless other
\* keys are reclaimed again for ever.
C24_ReclaimedFetchedUnlessOthers ==
    \A k \in Keys :
        [](k \in reclaimed
            => <>(\/ last = Record("fetchNextRequest", "", k)
                  \/ \E j \in Keys \ {k} : last = Record("reclaimRequest", j, "ok")))

\* C24 amended happens: a fetchNextRequest returned a reclaimed key while
\* another key was, and still is, reclaimed.
C24_Witness ==
    /\ isInitialized
    /\ last.op = "fetchNextRequest"
    /\ last.ret \in inProgress \ reclaimed
    /\ outstanding[last.ret] = 1
    /\ reclaimed # {}
    /\ \A k \in reclaimed : outstanding[k] = 0

-----------------------------------------------------------------------------
\* The store holds the snapshot of this moment: the nextIndex, the
\* nextUniqueKey and the inProgress of getState().
StoreIsCurrent ==
    /\ store # <<>>
    /\ store[1].nextIndex = GetStateValue.nextIndex
    /\ store[1].nextUniqueKey = GetStateValue.nextUniqueKey
    /\ store[1].inProgress = GetStateValue.inProgress

\* C25 (the dirty flag is sound under asynchronous persistence): on an
\* initialized list every step that changes nextIndex or inProgress leaves
\* isStatePersisted false; and whenever isStatePersisted is true after a
\* write of the handler has succeeded (right after it, and as long as the
\* flag stays set), the store holds the snapshot of this moment, also when
\* fetchNextRequest or markRequestHandled ran while the write was in flight.
C25_DirtyFlagSound ==
    /\ [][(isInitialized /\ isInitialized'
            /\ (nextIndex' # nextIndex \/ inProgress' # inProgress))
            => ~isStatePersisted']_vars
    /\ []((last.op = "writeDone" /\ isStatePersisted) => StoreIsCurrent)
    /\ []((restarts = 0 /\ isInitialized /\ isStatePersisted /\ store # <<>>)
            => StoreIsCurrent)

-----------------------------------------------------------------------------
\* C26, the first half: what the caller reads in the object a getState()
\* returned is what it was returned with, whatever fetchNextRequest,
\* markRequestHandled and reclaimRequest ran since, so every key of its
\* inProgress is at a position below its nextIndex.
C26_SnapshotKept ==
    snapshot # <<>>
        => /\ SnapshotRead = snapshot[1]
           /\ \A k \in SnapshotRead.inProgress :
                Lt(Position(k), SnapshotRead.nextIndex)

\* C26 (a snapshot is a value): C26_SnapshotKept in every state, and
\* initialize() leaves the state object it was given as it was: after a
\* restore that succeeded, the inProgress of that object, which is now
\* this.inProgress, holds the keys it was passed with.
C26_SnapshotIsValue ==
    /\ []C26_SnapshotKept
    /\ [][(StepOf("restoreState") /\ pc' = "restored")
            => inProgress' = restored'[1].inProgress]_vars

-----------------------------------------------------------------------------
\* The keys of the requests at a position below nextIndex.
BelowCursor == {requests[i] : i \in {j \in DOMAIN requests : Lt(j - 1, nextIndex)}}

\* The requests that are completed: those marked handled, and those the
\* state object restored counted as handled.
Completed == handled \cup settled

\* C27 (accounting of the dispatched positions): on an initialized list the
\* requests at a position below nextIndex are those in inProgress and those
\* completed, no request is both, and the number of completed requests plus
\* the size of inProgress is nextIndex; a request that the restored state
\* object counts as completed (below its nextIndex, not in its inProgress) is
\* never returned by fetchNextRequest, and markRequestHandled and
\* reclaimRequest fail on it and change nothing.
C27_Accounting ==
    /\ [](isInitialized
            => /\ BelowCursor = inProgress \cup Completed
               /\ inProgress \cap Completed = {}
               /\ Cardinality(Completed) + Cardinality(inProgress) = nextIndex)
    /\ [][StepOf("fetchNextRequest") => last'.ret \notin settled]_vars
    /\ [][((StepOf("markRequestHandled") \/ StepOf("reclaimRequest"))
            /\ last'.key \in settled)
            => /\ last'.ret \in CallErrors
               /\ UNCHANGED queueVars]_vars

-----------------------------------------------------------------------------
\* The list is finished, with the cursor at the end of the list.
Finished ==
    /\ IsFinishedValue
    /\ nextIndex = Len(requests)
    /\ inProgress = {}
    /\ reclaimed = {}

\* A reclaimRequest that succeeds.
ReclaimOk == StepOf("reclaimRequest") /\ last'.ret = "ok"

\* C28 (progress to completion): on an initialized list, when
\* fetchNextRequest is called as long as it can return a request and every
\* request returned is answered by markRequestHandled or reclaimRequest (the
\* fairness of SpecProgress), and the requests are reclaimed finitely many
\* times, isFinished() is true in the end, with nextIndex = requests.length
\* and inProgress and reclaimed empty.
C28_Progress ==
    <>[][~ReclaimOk]_vars => (isInitialized ~> Finished)

-----------------------------------------------------------------------------
\* C29 (finished is stable): from a state of an initialized list where
\* isFinished() is true, every step leads to a state where it is true again
\* and leaves nextIndex, inProgress and reclaimed as they are; a
\* fetchNextRequest returns null there, and a markRequestHandled or a
\* reclaimRequest fails.
C29_FinishedStable ==
    [][(isInitialized /\ IsFinishedValue)
        => /\ isInitialized'
           /\ IsFinishedValue'
           /\ UNCHANGED <<nextIndex, inProgress, reclaimed>>
           /\ StepOf("fetchNextRequest") => last'.ret = Null
           /\ (StepOf("markRequestHandled") \/ StepOf("reclaimRequest"))
                => last'.ret \in CallErrors]_vars

\* C29 happens: every request of a list of three was handled, and a
\* reclaimRequest made after that was rejected.
C29_Witness ==
    /\ isInitialized
    /\ IsFinishedValue
    /\ Len(requests) = 3
    /\ handled = Loaded
    /\ last.op = "reclaimRequest"
    /\ last.key \in handled
    /\ last.ret = "ErrNotInProgress"

-----------------------------------------------------------------------------
\* The callbacks that make initialize() fail, and what they throw: an
\* invalid uniqueKey of a source, a list that cannot be fetched, a state
\* object that is rejected.
InitializeFailures ==
    {<<"loadSource", "ErrUniqueKey">>, <<"listFailed", "ErrCannotFetch">>}
        \cup {<<"restoreState", e>> : e \in CursorErrors \cup {"ErrOrderChanged", "ErrUnknownUniqueKey"}}

\* What C30 says whatever the error of the later calls is: a second
\* initialize() throws and leaves the load as it is, and isLoading stays
\* set, so that initialize() cannot be retried; initialize() fails by one of
\* the three failures, and from then on the list stays failed and is never
\* initialized, and the persist handler, never registered, does not run.
OneShot ==
    /\ [][(StepOf("initialize") /\ isLoading)
            => /\ last'.ret = "ErrAlreadyLoading"
               /\ UNCHANGED <<pc, loadPos>>
               /\ UNCHANGED progVars]_vars
    /\ [][isLoading => isLoading']_vars
    /\ [][(pc # "failed" /\ pc' = "failed")
            => <<last'.op, last'.ret>> \in InitializeFailures]_vars
    /\ [](pc = "failed" => isLoading /\ ~isInitialized)
    /\ [][pc = "failed"
            => /\ pc' = "failed"
               /\ ~isInitialized'
               /\ ~StepOf("persistState")
               /\ StepOf("initialize") => last'.ret = "ErrAlreadyLoading"]_vars

\* C30 (initialization is one-shot and failure is final): OneShot, and
\* after initialize() failed every call of fetchNextRequest,
\* markRequestHandled, reclaimRequest, isEmpty, isFinished and getState
\* fails with the error of a list that is not initialized.
C30_OneShotNotInitialized ==
    /\ OneShot
    /\ [][(pc = "failed" /\ last'.op \in PublicCalls)
            => last'.ret = "ErrNotInitialized"]_vars

====
